---- MODULE Spec2Model ----
(***************************************************************************)
(* A model of the PDF indexing tool (src/data/pdf_embedder.py) and of the  *)
(* ChromaDB query service (src/data/chromadb_service.py).                  *)
(*                                                                         *)
(*   ChunkSpec  PDFEmbedder.chunk_text, one action per iteration of its    *)
(*              window loop, on texts over a four-character alphabet.      *)
(*   IndexerSpec  the indexer CLI (main, process_all_pdfs, embed_pdf) and  *)
(*              the persistent store it writes, run after run over any     *)
(*              source directory of two files.                             *)
(*   Spec       the indexer and the HTTP service reading the same store,   *)
(*              over a source directory that stays as it is.               *)
(*                                                                         *)
(* Texts are sequences of one-character strings; Python's indices are      *)
(* 0-based and are kept 0-based in start/end, translated at each access.   *)
(***************************************************************************)
EXTENDS Integers, Sequences, FiniteSets, TLC

\* ---------------------------------------------------------------- bounds
MaxLen == 5
MaxSize == 3
MaxOverlap == 3
MaxIter == 20

\* ------------------------------------------------------ program constants
DEFAULT_CHUNK_SIZE == 1000
DEFAULT_OVERLAP == 100
LOOKBACK == 200

\* ------------------------------------------------------------ Python text
Min2(a, b) == IF a < b THEN a ELSE b
Max2(a, b) == IF a > b THEN a ELSE b
SetMin(S) == CHOOSE x \in S : \A y \in S : x <= y
SetMax(S) == 0 - SetMin({0 - x : x \in S})

\* The characters str.strip() removes (those that occur in the modelled texts).
Whitespace == {" ", "\n", "\t", "\r"}
\* text[i] in '.!?\n'
Boundary == {".", "!", "?", "\n"}

\* str.strip(): the text between its first and last non-whitespace character.
Strip(t) ==
    LET keep == {i \in 1..Len(t) : t[i] \notin Whitespace}
    IN  IF keep = {} THEN <<>> ELSE SubSeq(t, SetMin(keep), SetMax(keep))

\* Python's normalisation of a slice bound: negative bounds count from the end,
\* and the result is clamped to 0..len.
PyBound(i, n) == IF i < 0 THEN Max2(i + n, 0) ELSE Min2(i, n)

\* text[s:e]
PySlice(t, s, e) ==
    LET a == PyBound(s, Len(t))
        b == PyBound(e, Len(t))
    IN  IF a < b THEN SubSeq(t, a + 1, b) ELSE <<>>

\* text[i] raises IndexError outside -len..len-1; a negative i counts from the end.
PyIndexOK(t, i) == -Len(t) <= i /\ i < Len(t)
PyAt(t, i) == t[(IF i < 0 THEN i + Len(t) ELSE i) + 1]

\* ------------------------------------------------------------- chunk_text
\* for i in range(end, search_start, -1): if text[i] in '.!?\n': end = i + 1; break
\* i runs down from end to search_start + 1 and stops at the first boundary
\* character; text[i] raises IndexError once i < -len(text), which the loop
\* reaches only when no boundary character was found above that i.
\* The result is the new end, or the error raised.
BoundarySearch(t, search_start, end) ==
    LET range == (search_start + 1)..end
        hits == {i \in range : PyIndexOK(t, i) /\ PyAt(t, i) \in Boundary}
    IN  IF hits # {} THEN [error |-> "none", end |-> SetMax(hits) + 1]
        ELSE IF \E i \in range : ~PyIndexOK(t, i)
             THEN [error |-> "IndexError", end |-> end]
             ELSE [error |-> "none", end |-> end]

\* The end of the window that starts at `start` (lines 73-82).
WindowEnd(t, size, s) ==
    LET end == s + size
    IN  IF end < Len(t)
        THEN BoundarySearch(t, Max2(end - LOOKBACK, s), end)
        ELSE [error |-> "none", end |-> end]

\* chunk = text[start:end].strip()
WindowChunk(t, s, e) == Strip(PySlice(t, s, e))

\* if chunk: chunks.append(chunk)
AppendChunk(cs, chunk) == IF chunk # <<>> THEN Append(cs, chunk) ELSE cs

\* An advance that steps over the character at end.
NextStart_SkipOne(e, ov) == e - ov + 1

\* start = end - overlap
NextStart(e, ov) == e - ov

\* if len(text) <= chunk_size: return [text]
ShortResult(t) == <<t>>

\* The window loop as a function (lines 72-92), from `start` with `cs` collected
\* so far. It is used with the default parameters only, where every iteration
\* moves start forward by at least chunk_size - LOOKBACK - overlap.
RECURSIVE ChunkLoop(_, _, _, _, _)
ChunkLoop(t, size, ov, s, cs) ==
    LET w == WindowEnd(t, size, s)
        cs2 == AppendChunk(cs, WindowChunk(t, s, w.end))
        s2 == NextStart(w.end, ov)
    IN  IF s2 >= Len(t) THEN cs2 ELSE ChunkLoop(t, size, ov, s2, cs2)

\* chunk_text(text, chunk_size, overlap)
chunk_text(t, size, ov) ==
    IF Len(t) <= size THEN ShortResult(t) ELSE ChunkLoop(t, size, ov, 0, <<>>)

\* ------------------------------------------------------ extract_text_from_pdf
\* A PDF file is modelled by what PyPDF2 makes of it: whether the file opens as
\* a PDF at all, and for each page its text or the failure of extract_text().
Digit(d) == CASE d = 0 -> "0" [] d = 1 -> "1" [] d = 2 -> "2" [] d = 3 -> "3"
              [] d = 4 -> "4" [] d = 5 -> "5" [] d = 6 -> "6" [] d = 7 -> "7"
              [] d = 8 -> "8" [] d = 9 -> "9"

\* str(n) for n >= 0
RECURSIVE Decimal(_)
Decimal(n) == IF n < 10 THEN <<Digit(n)>> ELSE Append(Decimal(n \div 10), Digit(n % 10))

\* f"\n--- Page {page_num + 1} ---\n"
PageHeader(page_num) ==
    <<"\n", "-", "-", "-", " ", "P", "a", "g", "e", " ">>
        \o Decimal(page_num + 1) \o <<" ", "-", "-", "-", "\n">>

\* for page_num, page in enumerate(pdf_reader.pages): the text after the pages
\* from index page_num on (0-based). A page whose extraction raises, and a page
\* whose text is blank, add nothing.
RECURSIVE PagesText(_, _, _)
PagesText(pages, page_num, acc) ==
    IF page_num >= Len(pages) THEN acc
    ELSE LET page == pages[page_num + 1]
         IN  PagesText(pages, page_num + 1,
                 IF page.ok /\ Strip(page.text) # <<>>
                 THEN acc \o PageHeader(page_num) \o page.text
                 ELSE acc)

\* extract_text_from_pdf: "" when the file cannot be read, else the stripped text.
extract_text_from_pdf(pdf) ==
    IF ~pdf.readable THEN <<>> ELSE Strip(PagesText(pdf.pages, 0, <<>>))

\* --------------------------------------------------------------- the store
\* The collection is a sequence of records in the order they were added.
\* f"{pdf_path.stem}_chunk_{i}"
RecordId(stem, i) == <<stem, "_chunk_">> \o Decimal(i)

\* The records embed_pdf builds for the chunks of a file (lines 112-121).
BuildRecords(stem, cs) ==
    [k \in 1..Len(cs) |->
        [id |-> RecordId(stem, k - 1),
         document |-> cs[k],
         metadata |-> [filename |-> <<stem, ".pdf">>, chunk_index |-> k - 1,
                       total_chunks |-> Len(cs)]]]

RecordIds(recs) == {recs[k].id : k \in 1..Len(recs)}

\* A store that appends whatever it is given.
CollectionAdd_Append(recs, new) == recs \o new

\* collection.add(ids=...): a record whose id the collection already holds is
\* left as it is (the store logs it and raises nothing); the others are appended.
CollectionAdd(recs, new) ==
    recs \o SelectSeq(new, LAMBDA r : r.id \notin RecordIds(recs))

\* collection.delete(ids=None, where=None, where_document=None): the store
\* refuses a delete without any filter with a ValueError; with ids it removes
\* the records of those ids.
CollectionDelete(recs, ids) ==
    IF ids = "None" THEN [error |-> "ValueError", records |-> recs]
    ELSE [error |-> "none",
          records |-> SelectSeq(recs, LAMBDA r : r.id \notin ids)]

\* collection.count()
CollectionCount(recs) == Len(recs)

\* The embedding model is opaque; this distance between a query and a document
\* stands in for the distance of their embeddings.
Distance(q, d) == IF Len(q) >= Len(d) THEN Len(q) - Len(d) ELSE Len(d) - Len(q)

\* The place of record i among the records ordered by distance to q.
Rank(recs, q, i) ==
    1 + Cardinality({j \in 1..Len(recs) :
            \/ Distance(q, recs[j].document) < Distance(q, recs[i].document)
            \/ /\ Distance(q, recs[j].document) = Distance(q, recs[i].document)
               /\ j < i})

\* collection.query(query_texts=[q], n_results=n, include=...): the store
\* refuses n_results <= 0 with a ValueError; else it answers with the
\* min(n, count) nearest records, one list per query text.
CollectionQuery(recs, q, n, include_metadata, fault) ==
    IF fault = "query" THEN [error |-> "Exception"]
    ELSE IF n <= 0 THEN [error |-> "ValueError"]
    ELSE LET k == Min2(n, Len(recs))
             hit == [r \in 1..k |-> recs[CHOOSE i \in 1..Len(recs) : Rank(recs, q, i) = r]]
         IN  [error |-> "none",
              ids |-> <<[r \in 1..k |-> hit[r].id]>>,
              documents |-> <<[r \in 1..k |-> hit[r].document]>>,
              distances |-> <<[r \in 1..k |-> Distance(q, hit[r].document)]>>,
              metadatas |-> IF include_metadata
                            THEN <<[r \in 1..k |-> hit[r].metadata]>>
                            ELSE "None"]

\* ------------------------------------------------------------------ state
\* A call of chunk_text: its arguments, its locals, its position and the error
\* it raised; `examined` is the history of its windows.
VARIABLES text, chunk_size, overlap, start, chunks, examined, cpc, cerr

\* The source directory: for each file name the PDF it holds, or "absent".
VARIABLES corpus
\* The persistent store at db_path: whether collection pdf_documents exists, and
\* its records.
VARIABLES coll_exists, records
\* A run of the indexer (pdf_embedder.main): its position, args.reset, the
\* files process_all_pdfs listed, how often each was handed to embed_pdf, its
\* counters, how many files hit an error, the exit code, the step a fatal
\* error came from, the total it printed, and its last embed_pdf call (the
\* file, the call that raised, what it returned, whether the collection held
\* the file's records already, and the collection's ids and count before it).
VARIABLES ipc, reset, pdf_files, attempts, processed, failed, faulted,
          exit_code, fatal_at, printed_total, last_embed
\* The query service (chromadb_service): whether the app is serving, the global
\* `service`, its client and collection attributes, the exit code of the last
\* service process, and the response to the request just handled (NoResponse
\* after any other step).
VARIABLES spc, service, svc_client, svc_collection, svc_exit, resp

cvars == <<text, chunk_size, overlap, start, chunks, examined, cpc, cerr>>
storevars == <<coll_exists, records>>
runvars == <<ipc, reset, pdf_files, attempts, processed, failed, faulted,
             exit_code, fatal_at, printed_total, last_embed>>
servvars == <<spc, service, svc_client, svc_collection, svc_exit, resp>>
svars == <<corpus, storevars, runvars, servvars>>
vars == <<cvars, svars>>

Alphabet == {"a", " ", ".", "\n"}

RECURSIVE TextsOfLen(_)
TextsOfLen(n) ==
    IF n = 0 THEN {<<>>}
    ELSE {Append(t, c) : t \in TextsOfLen(n - 1), c \in Alphabet}

Texts == UNION {TextsOfLen(n) : n \in 0..MaxLen}

\* "Hello world. " * 100, the 1300 characters of the specification's scenario.
HelloWorld == <<"H", "e", "l", "l", "o", " ", "w", "o", "r", "l", "d", ".", " ">>
HelloText == [i \in 1..(100 * Len(HelloWorld)) |-> HelloWorld[((i - 1) % Len(HelloWorld)) + 1]]
\* 1300 letters without any boundary character.
PlainText == [i \in 1..1300 |-> "a"]
\* One sentence end 250 characters before the first hard cut, out of the lookback's reach.
FarBoundaryText == [i \in 1..1300 |-> IF i = 751 THEN "." ELSE "a"]
\* Two words 2400 blanks apart.
BlankRunText == [i \in 1..2402 |-> IF i \in {1, 2402} THEN "a" ELSE " "]
\* A page of lines of 60 characters.
LinesText == [i \in 1..2500 |-> IF i % 60 = 0 THEN "\n" ELSE "a"]

LongTexts == {HelloText, PlainText, FarBoundaryText, BlankRunText, LinesText}

\* A call chunk_text(text, chunk_size, overlap) about to run: every small text
\* with every small chunk_size and overlap, and the long texts with the defaults.
ChunkArgs ==
    /\ \/ /\ text \in Texts
          /\ chunk_size \in 1..MaxSize
          /\ overlap \in 0..MaxOverlap
       \/ /\ text \in LongTexts
          /\ chunk_size = DEFAULT_CHUNK_SIZE
          /\ overlap = DEFAULT_OVERLAP
    /\ start = 0
    /\ chunks = <<>>
    /\ examined = <<>>
    /\ cpc = "call"
    /\ cerr = "none"

\* Lines 66-70: the short text is returned as it is; otherwise the loop starts
\* at 0 (0 < len(text) holds, the text being longer than chunk_size >= 1).
ChunkCall ==
    /\ cpc = "call"
    /\ IF Len(text) <= chunk_size
       THEN /\ chunks' = ShortResult(text)
            /\ cpc' = "returned"
       ELSE /\ chunks' = <<>>
            /\ cpc' = "loop"
    /\ start' = 0
    /\ UNCHANGED <<text, chunk_size, overlap, examined, cerr, svars>>

\* One iteration of `while start < len(text)` (lines 72-90). `examined` keeps
\* the window of every iteration and whether its chunk was appended.
ChunkIterate ==
    /\ cpc = "loop"
    /\ Len(examined) < MaxIter
    /\ LET w == WindowEnd(text, chunk_size, start)
           chunk == WindowChunk(text, start, w.end)
       IN  IF w.error # "none"
           THEN /\ cpc' = "raised"
                /\ cerr' = w.error
                /\ UNCHANGED <<start, chunks, examined>>
           ELSE /\ chunks' = AppendChunk(chunks, chunk)
                /\ examined' = Append(examined,
                      [start |-> start, end |-> w.end, emitted |-> chunk # <<>>])
                /\ start' = NextStart(w.end, overlap)
                /\ cpc' = IF start' >= Len(text) THEN "returned" ELSE "loop"
                /\ cerr' = cerr
    /\ UNCHANGED <<text, chunk_size, overlap, svars>>

ChunkNext == ChunkCall \/ ChunkIterate

\* ------------------------------------------------------------ the indexer
Files == {"a", "b"}

\* "Hi."
PdfShort == [readable |-> TRUE, pages |-> <<[ok |-> TRUE, text |-> <<"H", "i", ".">>]>>]
\* A page without text (a scanned page).
PdfBlank == [readable |-> TRUE, pages |-> <<[ok |-> TRUE, text |-> <<" ", "\n">>]>>]
\* A file PyPDF2 cannot open.
PdfCorrupt == [readable |-> FALSE, pages |-> <<>>]
\* A page whose extract_text() raises, followed by a page of 2500 characters.
PdfLong == [readable |-> TRUE,
            pages |-> <<[ok |-> FALSE, text |-> <<>>],
                        [ok |-> TRUE, text |-> LinesText]>>]

ContentIds == {"short", "blank", "corrupt", "long"}

Pdf(c) == CASE c = "short" -> PdfShort
            [] c = "blank" -> PdfBlank
            [] c = "corrupt" -> PdfCorrupt
            [] c = "long" -> PdfLong

\* What extract_text_from_pdf and chunk_text make of each of these files.
ExtractedText == [c \in ContentIds |-> extract_text_from_pdf(Pdf(c))]
DefaultChunks ==
    [c \in ContentIds |-> chunk_text(ExtractedText[c], DEFAULT_CHUNK_SIZE, DEFAULT_OVERLAP)]

\* No chunk_text call, for the specification of the indexer.
ChunkIdle ==
    /\ text = <<>> /\ chunk_size = DEFAULT_CHUNK_SIZE /\ overlap = DEFAULT_OVERLAP
    /\ start = 0 /\ chunks = <<>> /\ examined = <<>>
    /\ cpc = "idle" /\ cerr = "none"

\* No indexer run yet. Exit codes are kept as the strings "0" and "1".
NotPrinted == [printed |-> FALSE]
NoEmbed == [stem |-> "none"]
RunIdle ==
    /\ ipc = "idle" /\ reset = FALSE /\ pdf_files = {}
    /\ attempts = [f \in Files |-> 0]
    /\ processed = 0 /\ failed = 0 /\ faulted = 0
    /\ exit_code = "none" /\ fatal_at = "none" /\ printed_total = NotPrinted
    /\ last_embed = NoEmbed

\* No response, and a response on its way to the client: a request is handled and
\* answered in one piece, nothing else happens before the response is delivered.
NoResponse == [request |-> [op |-> "none"], status |-> 0]
Pending == resp # NoResponse

\* No service process.
ServiceDown ==
    /\ spc = "down" /\ service = "None" /\ svc_client = "None"
    /\ svc_collection = "None" /\ svc_exit = "none" /\ resp = NoResponse

\* chunk_text alone: nothing else runs.
ChunkInit ==
    /\ ChunkArgs
    /\ corpus = [f \in Files |-> "absent"]
    /\ coll_exists = FALSE
    /\ records = <<>>
    /\ RunIdle
    /\ ServiceDown

ChunkSpec == ChunkInit /\ [][ChunkNext]_vars

\* except Exception as e: print(f"Fatal error: {e}"); sys.exit(1)  (lines 223-225)
Fatal(step) ==
    /\ ipc' = "exited"
    /\ exit_code' = "1"
    /\ fatal_at' = step

\* main, lines 186-194: parse the arguments, open the store and get or create
\* the collection, load the embedding model. Either step may raise.
IndexerStart ==
    /\ ipc = "idle" /\ ~Pending
    /\ \E r \in BOOLEAN, fault \in {"none", "initialize_chromadb", "initialize_model"} :
          /\ reset' = r
          /\ pdf_files' = {}
          /\ attempts' = [f \in Files |-> 0]
          /\ processed' = 0 /\ failed' = 0 /\ faulted' = 0
          /\ printed_total' = NotPrinted
          /\ last_embed' = NoEmbed
          /\ coll_exists' = IF fault = "initialize_chromadb" THEN coll_exists ELSE TRUE
          /\ IF fault # "none"
             THEN Fatal(fault)
             ELSE /\ ipc' = IF r THEN "reset" ELSE "process"
                  /\ exit_code' = "none"
                  /\ fatal_at' = "none"
    /\ UNCHANGED <<corpus, records, cvars, servvars>>

\* main, lines 197-204: embedder.collection.delete() and get_or_create_collection.
IndexerReset ==
    /\ ipc = "reset" /\ ~Pending
    /\ LET d == CollectionDelete(records, "None")
       IN  IF d.error # "none"
           THEN /\ Fatal("reset")
                /\ UNCHANGED <<coll_exists, records>>
           ELSE /\ records' = d.records
                /\ coll_exists' = TRUE
                /\ ipc' = "process"
                /\ UNCHANGED <<exit_code, fatal_at>>
    /\ UNCHANGED <<corpus, reset, pdf_files, attempts, processed, failed, faulted,
                   printed_total, last_embed, cvars, servvars>>

\* process_all_pdfs, lines 139-151: no source directory or no *.pdf in it
\* returns {"processed": 0, "failed": 0}; else the files are listed.
ProcessAllPdfs ==
    /\ ipc = "process" /\ ~Pending
    /\ LET found == {f \in Files : corpus[f] # "absent"}
       IN  /\ pdf_files' = found
           /\ ipc' = IF found = {} THEN "stats" ELSE "loop"
    /\ processed' = 0 /\ failed' = 0
    /\ UNCHANGED <<corpus, storevars, reset, attempts, faulted, exit_code, fatal_at,
                   printed_total, last_embed, cvars, servvars>>

\* embed_pdf(pdf_path) (lines 94-135) for the file named `stem` holding the PDF
\* `c`, on the collection `recs`; `fault` is the call that raises, if any. The
\* result is what embed_pdf returns ("raised" when the exception leaves it) and
\* the records of the collection afterwards.
embed_pdf(stem, c, recs, fault) ==
    IF ExtractedText[c] = <<>> THEN [result |-> "False", records |-> recs]
    ELSE IF fault = "encode" THEN [result |-> "raised", records |-> recs]
    ELSE IF fault = "add" THEN [result |-> "False", records |-> recs]
    ELSE [result |-> "True",
          records |-> CollectionAdd(recs, BuildRecords(stem, DefaultChunks[c]))]

\* The collection holds every record embed_pdf builds for the file `stem`
\* holding the PDF `c`: the file was indexed before with this very content.
AlreadyIndexed(stem, c, recs) ==
    LET new == BuildRecords(stem, DefaultChunks[c])
    IN  /\ ExtractedText[c] # <<>>
        /\ \A k \in 1..Len(new) : \E j \in 1..Len(recs) : recs[j] = new[k]

\* One iteration of `for pdf_file in pdf_files` (lines 153-161); the files come
\* in the order the directory lists them. After the last one process_all_pdfs
\* returns.
EmbedNextPdf ==
    /\ ipc = "loop" /\ ~Pending
    /\ \E f \in pdf_files, fault \in {"none", "encode", "add"} :
          /\ attempts[f] = 0
          /\ LET pdf == Pdf(corpus[f])
                 e == embed_pdf(f, corpus[f], records, fault)
             IN  /\ ExtractedText[corpus[f]] = <<>> => fault = "none"
                 /\ records' = e.records
                 /\ processed' = IF e.result = "True" THEN processed + 1 ELSE processed
                 /\ failed' = IF e.result = "True" THEN failed ELSE failed + 1
                 /\ faulted' = IF ~pdf.readable \/ fault # "none"
                               THEN faulted + 1 ELSE faulted
                 /\ last_embed' = [stem |-> f, fault |-> fault, result |-> e.result,
                                   known |-> AlreadyIndexed(f, corpus[f], records),
                                   ids |-> RecordIds(records),
                                   count |-> CollectionCount(records)]
          /\ attempts' = [attempts EXCEPT ![f] = @ + 1]
          /\ ipc' = IF \A g \in pdf_files : attempts'[g] > 0 THEN "stats" ELSE "loop"
    /\ UNCHANGED <<corpus, coll_exists, reset, pdf_files, exit_code, fatal_at,
                   printed_total, cvars, servvars>>

\* get_collection_stats (lines 165-175): {"total_documents": count}, or {} when
\* count() raises.
get_collection_stats(recs, fault) ==
    IF fault = "count" THEN [empty |-> TRUE]
    ELSE [empty |-> FALSE, total_documents |-> CollectionCount(recs)]

\* main, lines 209-221: print the results and the total, exit with code 0.
IndexerFinish ==
    /\ ipc = "stats" /\ ~Pending
    /\ \E fault \in {"none", "count"} :
          LET stats == get_collection_stats(records, fault)
          IN  printed_total' = IF stats.empty THEN NotPrinted
                               ELSE [printed |-> TRUE, total |-> stats.total_documents]
    /\ ipc' = "exited"
    /\ exit_code' = "0"
    /\ UNCHANGED <<corpus, storevars, reset, pdf_files, attempts, processed, failed,
                   faulted, fatal_at, last_embed, cvars, servvars>>

\* The process is gone, and with it the embedder and its counters; the store
\* and the source directory stay.
IndexerExit ==
    /\ ipc = "exited" /\ ~Pending
    /\ ipc' = "idle" /\ reset' = FALSE /\ pdf_files' = {}
    /\ attempts' = [f \in Files |-> 0]
    /\ processed' = 0 /\ failed' = 0 /\ faulted' = 0
    /\ exit_code' = "none" /\ fatal_at' = "none" /\ printed_total' = NotPrinted
    /\ last_embed' = NoEmbed
    /\ UNCHANGED <<corpus, storevars, cvars, servvars>>

\* Between two runs a file of the source directory is added, replaced or removed.
EditCorpus ==
    /\ ipc = "idle" /\ ~Pending
    /\ \E f \in Files, c \in ContentIds \cup {"absent"} :
          /\ c # corpus[f]
          /\ corpus' = [corpus EXCEPT ![f] = c]
    /\ UNCHANGED <<storevars, runvars, cvars, servvars>>

\* A run of the indexer.
IndexerRun ==
    \/ IndexerStart
    \/ IndexerReset
    \/ ProcessAllPdfs
    \/ EmbedNextPdf
    \/ IndexerFinish
    \/ IndexerExit

IndexerNext == IndexerRun \/ EditCorpus

\* The indexer alone: an empty store directory and any source directory.
IndexerInit ==
    /\ ChunkIdle
    /\ corpus \in [Files -> ContentIds \cup {"absent"}]
    /\ coll_exists = FALSE
    /\ records = <<>>
    /\ RunIdle
    /\ ServiceDown

IndexerSpec == IndexerInit /\ [][IndexerNext]_vars

\* ------------------------------------------------------------ the service
COLLECTION_NAME == <<"p", "d", "f", "_", "d", "o", "c", "u", "m", "e", "n", "t", "s">>
Query == <<"H", "i">>
\* The n_results of the requests: none, fewer than and more than the records.
N_RESULTS == {0, 1, 5}

\* chromadb_service.main (lines 203-227): service = ChromaDBService(...),
\* service.initialize(), then the app is served. PersistentClient raising
\* leaves initialize and main exits with 1; get_collection raising (there is no
\* such collection) or count() raising leaves self.collection None.
ServiceMain ==
    /\ spc = "down" /\ ~Pending
    /\ \E fault \in {"none", "client", "count"} :
          IF fault = "client"
          THEN /\ svc_exit' = "1"
               /\ UNCHANGED <<spc, service, svc_client, svc_collection>>
          ELSE /\ spc' = "serving"
               /\ service' = "ChromaDBService"
               /\ svc_client' = "Client"
               /\ svc_collection' = IF coll_exists /\ fault = "none"
                                     THEN "Collection" ELSE "None"
               /\ svc_exit' = "none"
    /\ resp' = NoResponse
    /\ UNCHANGED <<corpus, storevars, runvars, cvars>>

\* The app served without main (uvicorn chromadb_service:app): startup_event
\* (lines 121-127) initializes nothing and the global service stays None.
ServeApp ==
    /\ spc = "down" /\ ~Pending
    /\ spc' = "serving"
    /\ service' = "None" /\ svc_client' = "None" /\ svc_collection' = "None"
    /\ svc_exit' = "none"
    /\ resp' = NoResponse
    /\ UNCHANGED <<corpus, storevars, runvars, cvars>>

\* signal_handler (lines 179-182): sys.exit(0).
ServiceSignal ==
    /\ spc = "serving" /\ ~Pending
    /\ spc' = "down"
    /\ service' = "None" /\ svc_client' = "None" /\ svc_collection' = "None"
    /\ svc_exit' = "0"
    /\ resp' = NoResponse
    /\ UNCHANGED <<corpus, storevars, runvars, cvars>>

\* get_stats without its try/except, and get_stats answering with the count of
\* an empty collection.
get_stats_NoCatch(coll, recs, fault) ==
    IF coll = "None" THEN [status |-> "no_collection"]
    ELSE IF fault = "count" THEN [raised |-> "Exception"]
    ELSE [status |-> "ready",
          collection_name |-> COLLECTION_NAME,
          document_count |-> CollectionCount(recs)]

get_stats_CountZero(coll, recs, fault) ==
    IF coll = "None" THEN [status |-> "no_collection"]
    ELSE IF fault = "count" THEN [status |-> "error"]
    ELSE [status |-> "ready",
          collection_name |-> COLLECTION_NAME,
          document_count |-> CollectionCount(<<>>)]

\* ChromaDBService.get_stats (lines 86-100)
get_stats(coll, recs, fault) ==
    IF coll = "None" THEN [status |-> "no_collection"]
    ELSE IF fault = "count" THEN [status |-> "error"]
    ELSE [status |-> "ready",
          collection_name |-> COLLECTION_NAME,
          document_count |-> CollectionCount(recs)]

\* ChromaDBService.query_documents (lines 62-84)
query_documents(coll, recs, q, n, include_metadata, fault) ==
    IF coll = "None" THEN [status |-> 404]
    ELSE LET results == CollectionQuery(recs, q, n, include_metadata, fault)
         IN  IF results.error # "none" THEN [status |-> 500]
             ELSE [status |-> 200,
                   documents |-> IF results.documents # <<>>
                                 THEN results.documents[1] ELSE <<>>,
                   metadatas |-> IF include_metadata /\ results.metadatas # <<>>
                                 THEN results.metadatas[1] ELSE "None",
                   distances |-> IF results.distances # <<>>
                                 THEN results.distances[1] ELSE <<>>,
                   ids |-> IF results.ids # <<>> THEN results.ids[1] ELSE <<>>]

\* What a request leaves as it is: everything but the response.
reqvars == <<spc, service, svc_client, svc_collection, svc_exit,
             corpus, storevars, runvars, cvars>>

\* GET / (lines 129-131)
Root ==
    /\ spc = "serving" /\ ~Pending
    /\ resp' = [request |-> [op |-> "root"], status |-> 200,
                body |-> [status |-> "running"]]
    /\ UNCHANGED reqvars

\* GET /health (lines 133-140)
HealthCheck ==
    /\ spc = "serving" /\ ~Pending
    /\ \E fault \in {"none", "count"} :
          resp' = [request |-> [op |-> "health", fault |-> fault], status |-> 200,
                   body |-> [health |-> "ok",
                             service |-> IF service # "None"
                                         THEN get_stats(svc_collection, records, fault)
                                         ELSE [status |-> "not_initialized"]]]
    /\ UNCHANGED reqvars

\* A stats handler that looks the collection up again.
GetStats_Reconnect ==
    /\ spc = "serving" /\ ~Pending
    /\ svc_collection' = IF service # "None" /\ coll_exists
                          THEN "Collection" ELSE svc_collection
    /\ \E fault \in {"none", "count"} :
          LET request == [op |-> "stats", fault |-> fault]
          IN  resp' = IF service = "None" THEN [request |-> request, status |-> 503]
                      ELSE [request |-> request, status |-> 200,
                            body |-> get_stats(svc_collection', records, fault)]
    /\ UNCHANGED <<spc, service, svc_client, svc_exit,
                   corpus, storevars, runvars, cvars>>

\* GET /stats (lines 142-149)
GetStats ==
    /\ spc = "serving" /\ ~Pending
    /\ \E fault \in {"none", "count"} :
          LET request == [op |-> "stats", fault |-> fault]
          IN  resp' = IF service = "None" THEN [request |-> request, status |-> 503]
                      ELSE [request |-> request, status |-> 200,
                            body |-> get_stats(svc_collection, records, fault)]
    /\ UNCHANGED reqvars

\* POST /query (lines 151-164)
QueryDocuments ==
    /\ spc = "serving" /\ ~Pending
    /\ \E n \in N_RESULTS, include_metadata \in BOOLEAN, fault \in {"none", "query"} :
          LET request == [op |-> "query", n_results |-> n,
                          include_metadata |-> include_metadata, fault |-> fault]
              result == query_documents(svc_collection, records, Query, n,
                                        include_metadata, fault)
          IN  resp' = IF service = "None" THEN [request |-> request, status |-> 503]
                      ELSE IF result.status # 200
                      THEN [request |-> request, status |-> result.status]
                      ELSE [request |-> request, status |-> 200, body |-> result]
    /\ UNCHANGED reqvars

\* GET /collections (lines 166-177)
ListCollections ==
    /\ spc = "serving" /\ ~Pending
    /\ \E fault \in {"none", "list_collections"} :
          LET request == [op |-> "collections", fault |-> fault]
          IN  resp' = IF service = "None" \/ svc_client = "None"
                      THEN [request |-> request, status |-> 503]
                      ELSE IF fault # "none" THEN [request |-> request, status |-> 500]
                      ELSE [request |-> request, status |-> 200,
                            body |-> [collections |->
                                        IF coll_exists
                                        THEN <<[name |-> COLLECTION_NAME]>>
                                        ELSE <<>>]]
    /\ UNCHANGED reqvars

\* The response reaches the client.
Deliver ==
    /\ Pending
    /\ resp' = NoResponse
    /\ UNCHANGED reqvars

ServiceNext ==
    \/ ServiceMain
    \/ ServeApp
    \/ ServiceSignal
    \/ Root
    \/ HealthCheck
    \/ GetStats
    \/ QueryDocuments
    \/ ListCollections
    \/ Deliver

\* The whole system over a source directory that stays as it is: no file, or
\* the short and the long one.
Corpora == {[f \in Files |-> "absent"],
            [f \in Files |-> IF f = "a" THEN "short" ELSE "long"]}

Init ==
    /\ ChunkIdle
    /\ corpus \in Corpora
    /\ coll_exists = FALSE
    /\ records = <<>>
    /\ RunIdle
    /\ ServiceDown

Next == IndexerRun \/ ServiceNext

Spec == Init /\ [][Next]_vars

\* ------------------------------------------------------- chunk_text claims
ChunkLong == Len(text) > chunk_size
Emitted == SelectSeq(examined, LAMBDA w : w.emitted)
\* The positions of the text a window's slice text[start:end] holds.
WindowPositions(w) == PyBound(w.start, Len(text))..(PyBound(w.end, Len(text)) - 1)
EmittedPositions == UNION {WindowPositions(Emitted[k]) : k \in 1..Len(Emitted)}
ExaminedReach == IF examined = <<>> THEN 0
                 ELSE SetMax({examined[k].end : k \in 1..Len(examined)})

\* C1: for len(text) > chunk_size and 0 <= overlap < chunk_size, chunk_text
\* terminates and every chunk it emits is non-empty after trimming. Each
\* iteration is a function of start alone, so the loop terminates exactly when
\* it never comes back to a start it has already processed, and raises nothing.
C1_Terminates ==
    (ChunkLong /\ overlap < chunk_size) =>
        /\ cerr = "none"
        /\ cpc = "loop" => \A k \in 1..Len(examined) : examined[k].start # start
        /\ \A k \in 1..Len(chunks) : Strip(chunks[k]) # <<>>

\* C2: with overlap >= chunk_size on a text longer than chunk_size, chunk_text
\* fails with a configuration error instead of running a window loop in which
\* start does not strictly increase from one iteration to the next.
C2_ConfigurationError ==
    (ChunkLong /\ overlap >= chunk_size /\ cpc # "call") =>
        \/ cpc = "raised" /\ cerr = "ConfigurationError"
        \/ /\ cerr = "none"
           /\ \A k \in 1..(Len(examined) - 1) :
                 examined[k + 1].start > examined[k].start
           /\ examined # <<>> => start > examined[Len(examined)].start

\* C9: for len(text) <= chunk_size, chunk_text returns exactly one chunk, the
\* text trimmed of surrounding whitespace.
C9_ShortTextTrimmed ==
    (cpc = "returned" /\ Len(text) <= chunk_size) => chunks = <<Strip(text)>>

\* C10 as stated: when chunk_text returns for len(text) > chunk_size and
\* 0 <= overlap < chunk_size, the emitted windows start at 0, each next one
\* starts no later than the previous one's end, the last reaches len(text) and
\* no stretch longer than chunk_size - overlap lies outside every window (any
\* chunk_size - overlap + 1 consecutive positions hold a covered one).
C10_EmittedWindowsCover ==
    (cpc = "returned" /\ ChunkLong /\ overlap < chunk_size) =>
        LET covered == EmittedPositions
            gap == chunk_size - overlap
        IN  /\ Emitted # <<>>
            /\ Emitted[1].start = 0
            /\ \A k \in 1..(Len(Emitted) - 1) : Emitted[k + 1].start <= Emitted[k].end
            /\ Emitted[Len(Emitted)].end >= Len(text)
            /\ \A p \in 0..(Len(text) - 1 - gap) : \E r \in p..(p + gap) : r \in covered

\* C10 amended: the windows the loop examines (emitted, or skipped because
\* they hold only whitespace) start at 0, each next one starts no later than
\* the previous one's end, on return the last one reaches len(text), and every
\* character passed by the loop that lies outside every emitted window is
\* whitespace.
C10_ExaminedWindowsCover ==
    (cpc # "call" /\ ChunkLong /\ overlap < chunk_size) =>
        LET covered == EmittedPositions
            reach == Min2(ExaminedReach, Len(text))
        IN  /\ examined # <<>> => examined[1].start = 0
            /\ \A k \in 1..(Len(examined) - 1) : examined[k + 1].start <= examined[k].end
            /\ cpc = "returned" => examined[Len(examined)].end >= Len(text)
            /\ \A p \in 0..(reach - 1) : p \in covered \/ text[p + 1] \in Whitespace

\* A return after a window was skipped between two emitted ones.
C10_Witness ==
    /\ cpc = "returned" /\ ChunkLong /\ overlap < chunk_size
    /\ \E i, j, k \in 1..Len(examined) :
          /\ i < j /\ j < k
          /\ examined[i].emitted /\ ~examined[j].emitted /\ examined[k].emitted

\* MaxIter cuts no run that ends: a run that reaches it has come back to a
\* start it processed before.
IterBoundIsLoose ==
    (cpc = "loop" /\ Len(examined) = MaxIter) =>
        \E j, k \in 1..Len(examined) : j < k /\ examined[j].start = examined[k].start

\* ---------------------------------------------------------- indexer claims
\* The last embed_pdf call of the run found the file's records in the
\* collection and nothing raised in it.
Reindexed ==
    /\ last_embed.stem # "none"
    /\ last_embed.known
    /\ last_embed.fault = "none"

\* C3: indexing a document again with the same content is idempotent: the call
\* succeeds, it builds ids the collection holds already, and the ids and the
\* count of the collection are what they were before it.
C3_ReindexIdempotent ==
    Reindexed =>
        /\ last_embed.result = "True"
        /\ RecordIds(BuildRecords(last_embed.stem,
                DefaultChunks[corpus[last_embed.stem]])) \subseteq last_embed.ids
        /\ RecordIds(records) = last_embed.ids
        /\ CollectionCount(records) = last_embed.count

\* The long document indexed a second time.
C3_Witness ==
    /\ Reindexed
    /\ corpus[last_embed.stem] = "long"
    /\ last_embed.result = "True"
    /\ last_embed.count >= Len(DefaultChunks["long"])

\* C4: process_all_pdfs hands every listed file to embed_pdf once, no failure
\* ends the run, and when it returns processed + failed is the number of files
\* and failed the number of files that hit an error.
C4_FailuresIsolated ==
    /\ \A f \in Files : attempts[f] <= 1
    /\ (ipc = "exited" /\ pdf_files # {}) => exit_code = "0"
    /\ (ipc \in {"stats", "exited"} /\ pdf_files # {}) =>
          /\ \A f \in pdf_files : attempts[f] = 1
          /\ processed + failed = Cardinality(pdf_files)
          /\ failed = faulted

\* C8: a run that indexes one document of k chunks into an empty collection
\* prints the total k, and a run with --reset goes on past the reset with the
\* collection in place and empty.
C8_CountTracksIndexAndReset ==
    /\ ( /\ ipc = "exited" /\ printed_total.printed
         /\ last_embed.stem # "none"
         /\ pdf_files = {last_embed.stem}
         /\ last_embed.result = "True"
         /\ last_embed.count = 0 ) =>
            printed_total.total = Len(DefaultChunks[corpus[last_embed.stem]])
    /\ (reset /\ ipc \notin {"idle", "reset"}
           /\ fatal_at \notin {"initialize_chromadb", "initialize_model"}) =>
            /\ fatal_at = "none"
            /\ coll_exists
            /\ ipc = "process" => CollectionCount(records) = 0

\* ---------------------------------------------------------- service claims
Answered(op) == resp.request.op = op
ReadyPayload ==
    [status |-> "ready", collection_name |-> COLLECTION_NAME,
     document_count |-> CollectionCount(records)]

\* C5: a query on an initialized service without store error succeeds with no
\* documents, distances and ids when the service has the collection and the
\* collection is empty, and fails with 404 when the service has no collection.
C5_MissingVersusEmpty ==
    (Answered("query") /\ service # "None" /\ resp.request.fault = "none") =>
        /\ (svc_collection = "Collection" /\ CollectionCount(records) = 0) =>
              /\ resp.status = 200
              /\ resp.body.documents = <<>>
              /\ resp.body.distances = <<>>
              /\ resp.body.ids = <<>>
        /\ svc_collection = "None" => resp.status = 404

\* C6: stats fails with 503 exactly when the service is not initialized; else
\* it answers with the ready payload (the name and the store's count) when the
\* service has the collection, and with no_collection when it has none.
C6_StatsReadyOrNoCollection ==
    Answered("stats") =>
        /\ resp.status = 503 <=> service = "None"
        /\ resp.status # 503 =>
              /\ resp.status = 200
              /\ IF svc_collection = "Collection"
                 THEN resp.body = ReadyPayload
                 ELSE resp.body.status = "no_collection"

\* C6 as the code has it: with the collection, the answer is the ready payload
\* unless count() raises, and then the payload of status "error".
C6_StatsReadyErrorOrNoCollection ==
    Answered("stats") =>
        /\ resp.status = 503 <=> service = "None"
        /\ resp.status # 503 =>
              /\ resp.status = 200
              /\ IF svc_collection = "None" THEN resp.body.status = "no_collection"
                 ELSE IF resp.request.fault = "count" THEN resp.body.status = "error"
                 ELSE resp.body = ReadyPayload

\* stats answered with the count of a collection the indexer has filled.
C6_Witness ==
    /\ Answered("stats")
    /\ resp.status = 200
    /\ resp.body.status = "ready"
    /\ resp.body.document_count > Len(DefaultChunks["long"])

\* C7: health answers 200 with health "ok" and a service status in every state
\* of the service, whether or not count() raises.
C7_HealthAlwaysSucceeds ==
    Answered("health") =>
        /\ resp.status = 200
        /\ resp.body.health = "ok"
        /\ "status" \in DOMAIN resp.body.service
        /\ resp.body.service.status = 
              IF service = "None" THEN "not_initialized"
              ELSE IF svc_collection = "None" THEN "no_collection"
              ELSE IF resp.request.fault = "count" THEN "error"
              ELSE "ready"

\* health answered while count() raises.
C7_Witness ==
    /\ Answered("health")
    /\ resp.request.fault = "count"
    /\ svc_collection = "Collection"
    /\ resp.status = 200

\* C11: a query without store error on a service that has the collection
\* succeeds for every n_results (n <= 0 counts as 1), returns at most
\* max(n, 1) records and at most as many as the collection holds, and all of
\* them when n is not below the count.
C11_ResultCountClamped ==
    ( /\ Answered("query") /\ service # "None"
      /\ svc_collection = "Collection" /\ resp.request.fault = "none" ) =>
        /\ resp.status = 200
        /\ Len(resp.body.ids) <= Max2(resp.request.n_results, 1)
        /\ Len(resp.body.ids) <= CollectionCount(records)
        /\ Len(resp.body.documents) = Len(resp.body.ids)
        /\ resp.request.n_results >= CollectionCount(records) =>
              Len(resp.body.ids) = CollectionCount(records)

\* C12: embed_pdf on a document without text writes no record and raises
\* nothing, the document is not counted as failed (failed counts at most the
\* attempted documents that have text or cannot be read), and the run goes on.
C12_EmptyDocumentNotFailure ==
    (last_embed.stem # "none" /\ corpus[last_embed.stem] = "blank") =>
        /\ last_embed.result # "raised"
        /\ records = SubSeq(records, 1, last_embed.count)
        /\ CollectionCount(records) = last_embed.count
        /\ failed <= Cardinality({f \in pdf_files :
                          attempts[f] = 1 /\ corpus[f] # "blank"})
        /\ ipc \in {"loop", "stats", "exited"} /\ fatal_at = "none"

\* The positions i of the text with max(end - 200, start) < i <= end that hold
\* a boundary character, for the window starting at s (end = s + chunk_size).
BoundaryPositions(s) ==
    {i \in (Max2(s + chunk_size - LOOKBACK, s) + 1)..(s + chunk_size) :
        i >= 0 /\ i < Len(text) /\ text[i + 1] \in Boundary}

\* C13: every non-final window (start + chunk_size < len(text)) ends right
\* after the last boundary character at a position i with
\* max(end - 200, start) < i <= end, and is then at most chunk_size + 1 long;
\* without such a character it is cut at start + chunk_size.
C13_WindowEndsAtBoundary ==
    \A k \in 1..Len(examined) :
        LET w == examined[k]
            hits == BoundaryPositions(w.start)
        IN  w.start + chunk_size < Len(text) =>
                IF hits = {} THEN w.end = w.start + chunk_size
                ELSE /\ w.end = SetMax(hits) + 1
                     /\ w.end - w.start <= chunk_size + 1

\* A window cut after a boundary character and a window cut hard, in one call.
C13_Witness ==
    /\ cpc = "returned"
    /\ \E k \in 1..Len(examined) :
          /\ examined[k].start + chunk_size < Len(text)
          /\ BoundaryPositions(examined[k].start) # {}
          /\ examined[k].end < examined[k].start + chunk_size
    /\ \E k \in 1..Len(examined) :
          /\ examined[k].start + chunk_size < Len(text)
          /\ BoundaryPositions(examined[k].start) = {}

\* The readiness of the service process.
Readiness ==
    IF service = "None" THEN "UNINITIALIZED"
    ELSE IF svc_collection = "Collection" THEN "READY" ELSE "DEGRADED"

\* C14: the readiness changes only at startup: main brings the service up
\* READY (only with the collection in the store) or DEGRADED (always without
\* it), and no step taken while the service is up, by a request or by the
\* indexer on the store, changes it.
C14_ReadinessOnlyAtStartup ==
    [][ /\ (spc = "serving" /\ spc' = "serving") => Readiness' = Readiness
        /\ (spc = "down" /\ spc' = "serving" /\ service' # "None") =>
              /\ Readiness' \in {"READY", "DEGRADED"}
              /\ Readiness' = "READY" => coll_exists
              /\ ~coll_exists => Readiness' = "DEGRADED" ]_vars

\* A service that came up without the collection still answers 404 after the
\* indexer has created and filled it.
C14_Witness ==
    /\ spc = "serving" /\ Readiness = "DEGRADED"
    /\ coll_exists /\ CollectionCount(records) > 0
    /\ Answered("query") /\ resp.status = 404

\* The records of the collection that belong to the file `stem`.
RecordsOf(stem) ==
    {records[k] : k \in {j \in 1..Len(records) :
                            records[j].metadata.filename = <<stem, ".pdf">>}}

\* C15: the records of every document are consistent: each sits under the id
\* of its chunk_index, they carry one total_chunks and the indices
\* 0..total_chunks-1, and after a successful embed_pdf they are the records of
\* the content just indexed.
C15_RecordsConsistent ==
    /\ \A f \in Files :
          /\ \A r \in RecordsOf(f) :
                /\ r.id = RecordId(f, r.metadata.chunk_index)
                /\ {q.metadata.chunk_index : q \in RecordsOf(f)} =
                       0..(r.metadata.total_chunks - 1)
          /\ \A r, q \in RecordsOf(f) : r.metadata.total_chunks = q.metadata.total_chunks
    /\ (last_embed.stem # "none" /\ last_embed.result = "True") =>
          LET new == BuildRecords(last_embed.stem, DefaultChunks[corpus[last_embed.stem]])
          IN  RecordsOf(last_embed.stem) = {new[k] : k \in 1..Len(new)}

====
